---- MODULE Spec2Model ----
(***************************************************************************)
(* State-machine model of flow_log_parser.py: the lookup table loader      *)
(* (FlowParser._load_lookups), the per-line parser (_parse_line), the      *)
(* aggregator (process_logs), the report writer and main.                  *)
(*                                                                         *)
(* Text is modelled as sequences of one-character strings, so that the     *)
(* conversions of the program (strip, split, int, lower, the f-string of   *)
(* the traffic key) are computed, character by character.  The one         *)
(* exception is the pseudo character NonAscii, which stands for a byte     *)
(* >= 0x80 of a file.                                                      *)
(***************************************************************************)
EXTENDS Integers, Sequences, FiniteSets, TLC

(***************************************************************************)
(* Python text primitives used by the program.                             *)
(***************************************************************************)

\* The ASCII whitespace characters: what str.strip() and str.split() drop.
Whitespace == {" ", "\t", "\n", "\r"}

\* A byte outside 7-bit ASCII; open(..., encoding='ascii') cannot decode it.
NonAscii == "x80"

RECURSIVE lstrip(_)
lstrip(s) == IF s # <<>> /\ Head(s) \in Whitespace THEN lstrip(Tail(s)) ELSE s

RECURSIVE rstrip(_)
rstrip(s) ==
  IF s # <<>> /\ s[Len(s)] \in Whitespace
    THEN rstrip(SubSeq(s, 1, Len(s) - 1))
    ELSE s

\* line.strip()
strip(s) == rstrip(lstrip(s))

RECURSIVE split_from(_, _)
split_from(s, cur) ==
  IF s = <<>>
    THEN (IF cur = <<>> THEN <<>> ELSE <<cur>>)
    ELSE IF Head(s) \in Whitespace
      THEN (IF cur = <<>> THEN <<>> ELSE <<cur>>) \o split_from(Tail(s), <<>>)
      ELSE split_from(Tail(s), Append(cur, Head(s)))

\* s.split(): the fields between runs of whitespace, none of them empty.
split(s) == split_from(s, <<>>)

RECURSIVE split_sep_from(_, _, _)
split_sep_from(s, sep, cur) ==
  IF s = <<>>
    THEN <<cur>>
    ELSE IF Head(s) = sep
      THEN <<cur>> \o split_sep_from(Tail(s), sep, <<>>)
      ELSE split_sep_from(Tail(s), sep, Append(cur, Head(s)))

\* s.split(sep): one field per separator plus one, empty fields kept.
split_sep(s, sep) == split_sep_from(s, sep, <<>>)

Digits == <<"0", "1", "2", "3", "4", "5", "6", "7", "8", "9">>

IsDigit(c) == \E i \in 1..Len(Digits) : Digits[i] = c

DigitValue(c) == (CHOOSE i \in 1..Len(Digits) : Digits[i] = c) - 1

\* The text of an int() argument after whitespace and sign are removed.
int_body(s) ==
  LET t == strip(s)
  IN  IF t # <<>> /\ t[1] \in {"+", "-"} THEN Tail(t) ELSE t

int_negative(s) == LET t == strip(s) IN t # <<>> /\ t[1] = "-"

\* int(s) raises ValueError unless s is, after stripping whitespace, an
\* optional sign followed by decimal digits, single underscores allowed
\* between digits.  No range is checked: Python integers are unbounded.
int_raises(s) ==
  LET b == int_body(s)
  IN  \/ b = <<>>
      \/ \E i \in 1..Len(b) : ~IsDigit(b[i]) /\ b[i] # "_"
      \/ ~IsDigit(b[1])
      \/ ~IsDigit(b[Len(b)])
      \/ \E i \in 1..(Len(b) - 1) : b[i] = "_" /\ b[i + 1] = "_"

RECURSIVE int_digits(_, _)
int_digits(b, acc) ==
  IF b = <<>>
    THEN acc
    ELSE IF Head(b) = "_"
      THEN int_digits(Tail(b), acc)
      ELSE int_digits(Tail(b), 10 * acc + DigitValue(Head(b)))

\* int(s) for an argument that does not raise.
int(s) ==
  LET v == int_digits(int_body(s), 0)
  IN  IF int_negative(s) THEN 0 - v ELSE v

UpperCase == <<"A", "B", "C", "D", "E", "F", "G", "H", "I", "J", "K", "L", "M",
               "N", "O", "P", "Q", "R", "S", "T", "U", "V", "W", "X", "Y", "Z">>

LowerCase == <<"a", "b", "c", "d", "e", "f", "g", "h", "i", "j", "k", "l", "m",
               "n", "o", "p", "q", "r", "s", "t", "u", "v", "w", "x", "y", "z">>

lower_char(c) ==
  IF \E i \in 1..Len(UpperCase) : UpperCase[i] = c
    THEN LowerCase[CHOOSE i \in 1..Len(UpperCase) : UpperCase[i] = c]
    ELSE c

\* Fault variant of lower: the text is returned as it is.
lower_unchanged(s) == s

\* s.lower()
lower(s) == [i \in 1..Len(s) |-> lower_char(s[i])]

RECURSIVE str_nat(_)
str_nat(n) ==
  IF n < 10 THEN <<Digits[n + 1]>> ELSE Append(str_nat(n \div 10), Digits[(n % 10) + 1])

\* The decimal text of an integer, as an f-string field renders it.
str(n) == IF n < 0 THEN <<"-">> \o str_nat(0 - n) ELSE str_nat(n)

\* d.get(key, default) on a dictionary modelled as a function.
get(d, key, default) == IF key \in DOMAIN d THEN d[key] ELSE default

\* d[key] = value
set_item(d, key, value) == (key :> value) @@ d

\* A dictionary with no entry.
EmptyDict == <<>>


\* The code points of the punctuation the program's texts can hold.
Punctuation ==
  (" " :> 32) @@ ("+" :> 43) @@ ("," :> 44) @@ ("-" :> 45) @@ ("." :> 46) @@
  ("/" :> 47) @@ (":" :> 58) @@ ("_" :> 95) @@ ("\t" :> 9) @@ ("\n" :> 10) @@
  ("\r" :> 13)

\* The code point of an ASCII character: sorted() compares strings by it.
ord(c) ==
  IF c \in DOMAIN Punctuation THEN Punctuation[c]
  ELSE IF IsDigit(c) THEN 48 + DigitValue(c)
  ELSE IF \E i \in 1..Len(UpperCase) : UpperCase[i] = c
    THEN 64 + (CHOOSE i \in 1..Len(UpperCase) : UpperCase[i] = c)
  ELSE 96 + (CHOOSE i \in 1..Len(LowerCase) : LowerCase[i] = c)

RECURSIVE str_less(_, _)
\* a < b for two strings: lexicographic, by code point.
str_less(a, b) ==
  IF b = <<>> THEN FALSE
  ELSE IF a = <<>> THEN TRUE
  ELSE IF Head(a) = Head(b) THEN str_less(Tail(a), Tail(b))
  ELSE ord(Head(a)) < ord(Head(b))

RECURSIVE sorted_keys(_)
\* The keys of sorted(d.items()): the keys of the dictionary in ascending order.
sorted_keys(keys) ==
  IF keys = {} THEN <<>>
  ELSE LET least == CHOOSE k \in keys : \A j \in keys \ {k} : str_less(k, j)
       IN  <<least>> \o sorted_keys(keys \ {least})

\* True when the text holds a byte that the ascii codec rejects.
has_non_ascii(s) == \E i \in 1..Len(s) : s[i] = NonAscii


(***************************************************************************)
(* Bounds of the model and the inputs drawn within them.                   *)
(***************************************************************************)

\* The mapping limit of the loader, the literal 10000 of _load_lookups,
\* scaled down so that sources reaching and passing it can be enumerated.
MappingLimit == 2

\* A lookup source holds a header and at most this many further lines:
\* enough for the limit to be reached and one more mapping to follow.
MaxLookupLines == MappingLimit + 1

\* The most lines a log source holds.
MaxLogLines == 2

\* The most calls of process_logs a caller makes on one FlowParser.
MaxRuns == 2

\* Every sequence over S of length at most n.
SeqsUpTo(S, n) == UNION {[1..k -> S] : k \in 0..n}

RECURSIVE join(_, _)
\* sep.join(fields), used to write the lines of the input files.
join(sep, fields) ==
  IF fields = <<>> THEN <<>>
  ELSE IF Len(fields) = 1 THEN fields[1]
  ELSE fields[1] \o <<sep>> \o join(sep, Tail(fields))

\* A line of a text file: the text and its newline.
text_line(s) == Append(s, "\n")

Web == <<"w", "e", "b">>
Mail == <<"m", "a", "i", "l">>
Dns == <<"d", "n", "s">>
Tcp == <<"t", "c", "p">>
Udp == <<"u", "d", "p">>
Port80 == <<"8", "0">>
Port443 == <<"4", "4", "3">>
Port25 == <<"2", "5">>

\* The header of a lookup file: "dstport,protocol,tag".
HeaderLine ==
  text_line(join(",", << <<"d", "s", "t", "p", "o", "r", "t">>,
                         <<"p", "r", "o", "t", "o", "c", "o", "l">>,
                         <<"t", "a", "g">> >>))

\* The lines a lookup file is made of: mappings (one with the protocol in
\* upper case and the key of another, one with a padded, zero-led port),
\* a blank line, a line with two fields, a line with a bad port and a line
\* that is not ASCII.
LookupLineKinds ==
  { text_line(join(",", <<Port80, Tcp, Web>>)),
    text_line(join(",", <<Port80, <<"T", "C", "P">>, Mail>>)),
    text_line(join(",", <<Port443, Udp, Dns>>)),
    text_line(join(",", << <<" ", "0", "2", "5">>, Tcp, Mail>>)),
    text_line(<<" ", " ">>),
    text_line(join(",", <<Port80, Tcp>>)),
    text_line(join(",", << <<"s", "s", "h">>, Tcp, Web>>)),
    text_line(join(",", <<Port80, Tcp, <<"c", "a", "f", NonAscii>> >>)) }

\* The lookup files: the empty file, and a header followed by lines.
LookupSources ==
  {<<>>} \cup {<<HeaderLine>> \o body :
                 body \in SeqsUpTo(LookupLineKinds, MaxLookupLines)}

Filler == <<"x">>

\* A flow log line of n fields: version, five fields, the destination port
\* (field 6), the protocol number (field 7), then the rest.
flow_line(version, port, proto, n) ==
  text_line(join(" ", <<version, Filler, Filler, Filler, Filler, Filler,
                        port, proto>> \o [i \in 1..(n - 8) |-> Filler]))

\* The lines a log file is made of: accepted records (tcp, udp, a port
\* above 65535, a negative port with an unmapped protocol) and rejected
\* ones (13 fields, version 3, a port that is no number), and a line that
\* is not ASCII.
LogLineKinds ==
  { flow_line(<<"2">>, Port80, <<"6">>, 14),
    flow_line(<<"2">>, Port443, <<"1", "7">>, 15),
    flow_line(<<"2">>, <<"7", "0", "0", "0", "0">>, <<"6">>, 14),
    flow_line(<<"2">>, <<"-", "1">>, <<"9", "9">>, 14),
    flow_line(<<"2">>, Port80, <<"6">>, 13),
    flow_line(<<"3">>, Port80, <<"6">>, 14),
    flow_line(<<"2">>, <<"w", "w", "w">>, <<"6">>, 14),
    flow_line(<<"2">>, Port80, <<NonAscii>>, 14) }

LogSources == SeqsUpTo(LogLineKinds, MaxLogLines)

\* 10 * 1024 * 1024, the size limit of a log file.
LogSizeLimit == 10 * 1024 * 1024

\* 1 * 1024 * 1024, the size limit of a lookup file.
LookupSizeLimit == 1 * 1024 * 1024

\* Fault variant of too_large: a file of exactly the limit is refused.
too_large_or_equal(size, limit) == size >= limit

\* os.path.getsize(path) > limit
too_large(size, limit) == size > limit

\* The sizes os.path.getsize reports: the limit itself and one byte more.
FileSizes(limit) == {limit, limit + 1}

(***************************************************************************)
(* The state.                                                              *)
(***************************************************************************)
VARIABLES
  entry,            \* "main": run as a script; "library": FlowParser used by a caller
  argc,             \* len(sys.argv)
  log_size,         \* os.path.getsize(log_file)
  lookup_size,      \* os.path.getsize(lookup_file)
  lookup_file,      \* the lines of the lookup file while it is open
  log_file,         \* the lines of the log file, from its first opening on
  pc,               \* the statement the program is at
  f,                \* index of the next line of the open file; 0 when none is open
  num_mappings,     \* local of _load_lookups
  lookup_dict,      \* self.lookup_dict
  tag_count,        \* self.tag_count
  traffic_count,    \* self.traffic_count
  warning_printed,  \* "Warning: Reached 10000 mapping limit" was printed
  error,            \* the message of the exception raised, "" when none
  exit_status,      \* the status the process exits with
  report,           \* the lines of the output file, <<>> while it is not opened
  runs,             \* calls of process_logs that returned on this FlowParser
  calls,            \* calls of process_logs that returned, on any FlowParser
  first_tag_count,     \* the caller's copy of tag_count after the first run
  first_traffic_count  \* the caller's copy of traffic_count after the first run

vars ==
  <<entry, argc, log_size, lookup_size, lookup_file, log_file, pc, f,
    num_mappings, lookup_dict, tag_count, traffic_count, warning_printed,
    error, exit_status, report, runs, calls, first_tag_count,
    first_traffic_count>>

env == <<entry, argc, log_size, lookup_size>>

aggregates == <<tag_count, traffic_count>>

copies == <<calls, first_tag_count, first_traffic_count>>

Init ==
  /\ \/ /\ entry = "main"
        /\ argc \in {3, 4}
        /\ lookup_size \in FileSizes(LookupSizeLimit)
     \/ /\ entry = "library"
        /\ argc = 1
        /\ lookup_size = LookupSizeLimit
  /\ log_size \in FileSizes(LogSizeLimit)
  /\ lookup_file = <<>>
  /\ log_file = <<>>
  /\ pc = IF entry = "main" THEN "main" ELSE "construct"
  /\ f = 0
  /\ num_mappings = 0
  /\ lookup_dict = EmptyDict
  /\ tag_count = EmptyDict
  /\ traffic_count = EmptyDict
  /\ warning_printed = FALSE
  /\ error = ""
  /\ exit_status = 0
  /\ report = <<>>
  /\ runs = 0
  /\ calls = 0
  /\ first_tag_count = EmptyDict
  /\ first_traffic_count = EmptyDict

\* An exception leaves the with block (the file is closed) and propagates:
\* main catches it, prints "Error: ..." and exits with status 1; a caller
\* of the class receives it.
Raise(msg) ==
  /\ error' = msg
  /\ f' = 0
  /\ pc' = IF entry = "main" THEN "exit" ELSE "raised"
  /\ exit_status' = IF entry = "main" THEN 1 ELSE exit_status


(***************************************************************************)
(* FlowParser._parse_line and the steps of the two loops.                  *)
(***************************************************************************)

\* proto_map of _parse_line.
proto_map ==
  (<<"6">> :> Tcp) @@ (<<"1", "7">> :> Udp) @@
  (<<"1">> :> <<"i", "c", "m", "p">>) @@ (<<"5", "0">> :> <<"e", "s", "p">>) @@
  (<<"5", "1">> :> <<"a", "h">>)

\* What _parse_line returns for a line it rejects.
None == [ok |-> FALSE, port |-> 0, proto |-> <<>>]

\* The literal "2" that field 0 of a version 2 record is compared with.
VersionMarker == <<"2">>

\* Fault variant of parse_line: the version marker is not compared.
parse_line_any_version(line) ==
  LET fields == split(strip(line))
  IN  IF Len(fields) < 14
        THEN None
        ELSE IF int_raises(fields[7])
          THEN None
          ELSE [ok |-> TRUE,
                port |-> int(fields[7]),
                proto |-> get(proto_map, fields[8],
                              <<"p", "r", "o", "t", "o", "_">> \o fields[8])]

\* Fault variant of parse_line: a port outside 0..65535 is rejected.
parse_line_port_range(line) ==
  LET fields == split(strip(line))
  IN  IF Len(fields) < 14 \/ fields[1] # VersionMarker
        THEN None
        ELSE IF int_raises(fields[7])
          THEN None
          ELSE IF int(fields[7]) < 0 \/ int(fields[7]) > 65535
            THEN None
            ELSE [ok |-> TRUE,
                  port |-> int(fields[7]),
                  proto |-> get(proto_map, fields[8],
                                <<"p", "r", "o", "t", "o", "_">> \o fields[8])]

\* _parse_line(line): None, or the destination port and protocol name.
\* Python indexes fields from 0, TLA+ from 1.
parse_line(line) ==
  LET fields == split(strip(line))
  IN  IF Len(fields) < 14 \/ fields[1] # VersionMarker
        THEN None
        ELSE IF int_raises(fields[7])
          THEN None
          ELSE [ok |-> TRUE,
                port |-> int(fields[7]),
                proto |-> get(proto_map, fields[8],
                              <<"p", "r", "o", "t", "o", "_">> \o fields[8])]

\* Fault variant of traffic_key: the comma is left out.
traffic_key_without_comma(port, proto) == str(port) \o proto

\* f"{port},{proto}"
traffic_key(port, proto) == str(port) \o <<",">> \o proto

\* The tag of records whose key the lookup table does not hold.
Untagged == <<"U", "n", "t", "a", "g", "g", "e", "d">>

\* Fault variant of count_up: the count is set to 1, not raised by 1.
count_up_overwrite(d, key) == set_item(d, key, 1)

\* d[key] = d.get(key, 0) + 1
count_up(d, key) == set_item(d, key, get(d, key, 0) + 1)

\* self.lookup_dict.get((port, proto), "Untagged")
resolve_tag(table, port, proto) == get(table, <<port, proto>>, Untagged)

\* Fault variant of limit_reached: the comparison is strict.
limit_reached_late(n) == n > MappingLimit

\* Fault variant of limit_reached: the entries of the table are counted,
\* not the lines accepted.
limit_reached_by_table_size(n) == Cardinality(DOMAIN lookup_dict) >= MappingLimit

\* if num_mappings >= 10000
limit_reached(n) == n >= MappingLimit

\* The fields of a lookup line: line.strip().split(',')
mapping_fields(line) == split_sep(strip(line), ",")

\* The unpacking into port, proto, tag or int(port) raises ValueError.
mapping_raises(line) ==
  LET parts == mapping_fields(line)
  IN  Len(parts) # 3 \/ int_raises(parts[1])

\* key = (int(port), proto.lower())
mapping_key(line) ==
  LET parts == mapping_fields(line)
  IN  <<int(parts[1]), lower(parts[2])>>

mapping_tag(line) == mapping_fields(line)[3]

\* Reading on at index pos can raise UnicodeDecodeError: the text layer
\* decodes a whole chunk of the file at once, so the error of a byte is
\* raised when its chunk is read, at its own line or at an earlier one.
decode_can_fail(file, pos) ==
  \E i \in pos..Len(file) : has_non_ascii(file[i])

\* The iterator yields the line at index pos.
can_yield(file, pos) == pos <= Len(file) /\ ~has_non_ascii(file[pos])

TagCountsTitle ==
  <<"T", "a", "g", " ", "C", "o", "u", "n", "t", "s", ":", "\n">>

TagCountsHeader ==
  <<"T", "a", "g", ",", "C", "o", "u", "n", "t", "\n">>

TrafficTitle ==
  <<"\n", "P", "o", "r", "t", "/", "P", "r", "o", "t", "o", "c", "o", "l",
    " ", "C", "o", "m", "b", "i", "n", "a", "t", "i", "o", "n", " ", "C",
    "o", "u", "n", "t", "s", ":", "\n">>

TrafficHeader ==
  <<"P", "o", "r", "t", ",", "P", "r", "o", "t", "o", "c", "o", "l", ",",
    "C", "o", "u", "n", "t", "\n">>

\* f"{key},{count}\n" for each item of sorted(d.items())
report_rows(d) ==
  LET keys == sorted_keys(DOMAIN d)
  IN  [i \in 1..Len(keys) |-> keys[i] \o <<",">> \o str(d[keys[i]]) \o <<"\n">>]

\* What write_report writes, one element per f.write call.
report_text(tags, traffic) ==
  <<TagCountsTitle, TagCountsHeader>> \o report_rows(tags)
    \o <<TrafficTitle, TrafficHeader>> \o report_rows(traffic)


(***************************************************************************)
(* main.                                                                   *)
(***************************************************************************)

\* if len(sys.argv) != 4: print usage, sys.exit(1)
Main_Args ==
  /\ pc = "main"
  /\ IF argc # 4
       THEN /\ pc' = "exit"
            /\ exit_status' = 1
            /\ error' = "usage"
       ELSE /\ pc' = "main_log_size"
            /\ UNCHANGED <<exit_status, error>>
  /\ UNCHANGED <<env, lookup_file, log_file, f, num_mappings, lookup_dict,
                 aggregates, warning_printed, report, runs, copies>>

\* if os.path.getsize(log_file) > 10 * 1024 * 1024: raise ValueError
Main_LogSize ==
  /\ pc = "main_log_size"
  /\ IF too_large(log_size, LogSizeLimit)
       THEN Raise("Flow log file too large")
       ELSE /\ pc' = "main_lookup_size"
            /\ UNCHANGED <<error, f, exit_status>>
  /\ UNCHANGED <<env, lookup_file, log_file, num_mappings, lookup_dict,
                 aggregates, warning_printed, report, runs, copies>>

\* if os.path.getsize(lookup_file) > 1 * 1024 * 1024: raise ValueError
Main_LookupSize ==
  /\ pc = "main_lookup_size"
  /\ IF too_large(lookup_size, LookupSizeLimit)
       THEN Raise("Lookup file too large")
       ELSE /\ pc' = "construct"
            /\ UNCHANGED <<error, f, exit_status>>
  /\ UNCHANGED <<env, lookup_file, log_file, num_mappings, lookup_dict,
                 aggregates, warning_printed, report, runs, copies>>

(***************************************************************************)
(* FlowParser.__init__ and _load_lookups.                                  *)
(***************************************************************************)

\* __init__ up to the open() of _load_lookups: three empty dictionaries,
\* num_mappings = 0, and the lookup file opened on whatever it holds.
Construct ==
  /\ pc = "construct"
  /\ lookup_dict' = EmptyDict
  /\ tag_count' = EmptyDict
  /\ traffic_count' = EmptyDict
  /\ num_mappings' = 0
  /\ \E src \in LookupSources : lookup_file' = src
  /\ f' = 1
  /\ pc' = "load_header"
  /\ UNCHANGED <<env, log_file, warning_printed, error, exit_status, report,
                 runs, copies>>

\* next(f): the header is skipped; on an empty file next raises
\* StopIteration, which no handler of the class catches.
Load_Header ==
  /\ pc = "load_header"
  /\ \/ /\ lookup_file = <<>>
        /\ Raise("StopIteration")
     \/ /\ can_yield(lookup_file, f)
        /\ f' = f + 1
        /\ pc' = "load_loop"
        /\ UNCHANGED <<error, exit_status>>
  /\ UNCHANGED <<env, lookup_file, log_file, num_mappings, lookup_dict,
                 aggregates, warning_printed, report, runs, copies>>

\* One pass of "for line in f" in _load_lookups.
\* The line read is tested against the limit first, then for blankness,
\* then parsed; a line that raises ValueError is reported on the
\* standard output ("Skipping bad line"), which is not part of the state.
Load_Line ==
  /\ pc = "load_loop"
  /\ can_yield(lookup_file, f)
  /\ f' = f + 1
  /\ LET line == lookup_file[f]
     IN  IF limit_reached(num_mappings)
           THEN /\ warning_printed' = TRUE
                /\ pc' = "loaded"
                /\ UNCHANGED <<num_mappings, lookup_dict>>
           ELSE IF strip(line) = <<>>
             THEN UNCHANGED <<warning_printed, pc, num_mappings, lookup_dict>>
             ELSE IF mapping_raises(line)
               THEN UNCHANGED <<warning_printed, pc, num_mappings, lookup_dict>>
               ELSE /\ lookup_dict' =
                         set_item(lookup_dict, mapping_key(line), mapping_tag(line))
                    /\ num_mappings' = num_mappings + 1
                    /\ UNCHANGED <<warning_printed, pc>>
  /\ UNCHANGED <<env, lookup_file, log_file, aggregates, error, exit_status,
                 report, runs, copies>>

\* The lookup file is exhausted: the for loop ends.
Load_EOF ==
  /\ pc = "load_loop"
  /\ f > Len(lookup_file)
  /\ pc' = "loaded"
  /\ UNCHANGED <<env, lookup_file, log_file, f, num_mappings, lookup_dict,
                 aggregates, warning_printed, error, exit_status, report, runs,
                 copies>>

\* except UnicodeDecodeError: raise ValueError("Lookup file must be ASCII text")
Load_DecodeError ==
  /\ pc \in {"load_header", "load_loop"}
  /\ decode_can_fail(lookup_file, f)
  /\ Raise("Lookup file must be ASCII text")
  /\ UNCHANGED <<env, lookup_file, log_file, num_mappings, lookup_dict,
                 aggregates, warning_printed, report, runs, copies>>

\* The with block closes the file, _load_lookups and __init__ return.
Load_Return ==
  /\ pc = "loaded"
  /\ f' = 0
  /\ lookup_file' = <<>>
  /\ num_mappings' = 0
  /\ pc' = IF entry = "main" THEN "process_logs" ELSE "lib"
  /\ UNCHANGED <<env, log_file, lookup_dict, aggregates, warning_printed,
                 error, exit_status, report, runs, copies>>

(***************************************************************************)
(* FlowParser.process_logs and write_report.                               *)
(***************************************************************************)

\* A caller of the class calls process_logs on its FlowParser.
Lib_Call ==
  /\ pc = "lib"
  /\ calls < MaxRuns
  /\ pc' = "process_logs"
  /\ UNCHANGED <<env, lookup_file, log_file, f, num_mappings, lookup_dict,
                 aggregates, warning_printed, error, exit_status, report, runs,
                 copies>>

\* Fault variant of Lib_NewParser: the count dictionaries are shared by
\* every FlowParser (class attributes), so the new one starts with the
\* counts of the old.
Lib_NewParser_shared_counts ==
  /\ pc = "lib"
  /\ runs > 0
  /\ calls < MaxRuns
  /\ runs' = 0
  /\ UNCHANGED <<env, lookup_file, log_file, pc, f, num_mappings, lookup_dict,
                 aggregates, warning_printed, error, exit_status, report, copies>>

\* A caller that has run one FlowParser constructs another from the same
\* lookup file: __init__ binds three new dictionaries and _load_lookups
\* builds the table of that file again.
\* The load is taken in one step: the table is a function of the lines
\* of the file (C4_TableBounded), and the file is the one already loaded.
Lib_NewParser ==
  /\ pc = "lib"
  /\ runs > 0
  /\ calls < MaxRuns
  /\ tag_count' = EmptyDict
  /\ traffic_count' = EmptyDict
  /\ runs' = 0
  /\ UNCHANGED <<env, lookup_file, log_file, pc, f, num_mappings, lookup_dict,
                 warning_printed, error, exit_status, report, copies>>

\* The size check of process_logs and the open().  The file has the same
\* lines every time it is opened.
ProcessLogs_Open ==
  /\ pc = "process_logs"
  /\ IF too_large(log_size, LogSizeLimit)
       THEN /\ Raise("Log file too large (>10MB)")
            /\ UNCHANGED log_file
       ELSE /\ IF calls = 0
                 THEN \E src \in LogSources : log_file' = src
                 ELSE UNCHANGED log_file
            /\ f' = 1
            /\ pc' = "log_loop"
            /\ UNCHANGED <<error, exit_status>>
  /\ UNCHANGED <<env, lookup_file, num_mappings, lookup_dict, aggregates,
                 warning_printed, report, runs, copies>>

\* One pass of "for line in f" in process_logs.
Log_Line ==
  /\ pc = "log_loop"
  /\ can_yield(log_file, f)
  /\ f' = f + 1
  /\ LET result == parse_line(log_file[f])
     IN  IF result.ok
           THEN /\ traffic_count' =
                     count_up(traffic_count, traffic_key(result.port, result.proto))
                /\ tag_count' =
                     count_up(tag_count,
                              resolve_tag(lookup_dict, result.port, result.proto))
           ELSE UNCHANGED aggregates
  /\ UNCHANGED <<env, lookup_file, log_file, pc, num_mappings, lookup_dict,
                 warning_printed, error, exit_status, report, runs, copies>>

\* Fault variant of Log_DecodeError: the counts of the run are dropped
\* when the error is raised.
Log_DecodeError_discards ==
  /\ pc = "log_loop"
  /\ decode_can_fail(log_file, f)
  /\ Raise("Log file must be ASCII text")
  /\ tag_count' = EmptyDict
  /\ traffic_count' = EmptyDict
  /\ UNCHANGED <<env, lookup_file, log_file, num_mappings, lookup_dict,
                 warning_printed, report, runs, copies>>

\* except UnicodeDecodeError: raise ValueError("Log file must be ASCII text")
\* The counts of the lines already processed stay in the two dictionaries.
Log_DecodeError ==
  /\ pc = "log_loop"
  /\ decode_can_fail(log_file, f)
  /\ Raise("Log file must be ASCII text")
  /\ UNCHANGED <<env, lookup_file, log_file, num_mappings, lookup_dict,
                 aggregates, warning_printed, report, runs, copies>>

\* The log file is exhausted: the file is closed and process_logs returns,
\* to main or to the caller, who keeps a copy of the first run's counts.
Log_EOF ==
  /\ pc = "log_loop"
  /\ f > Len(log_file)
  /\ f' = 0
  /\ runs' = runs + 1
  /\ calls' = calls + 1
  /\ pc' = IF entry = "main" THEN "write_report" ELSE "lib"
  /\ IF entry = "library" /\ calls = 0
       THEN /\ first_tag_count' = tag_count
            /\ first_traffic_count' = traffic_count
       ELSE UNCHANGED <<first_tag_count, first_traffic_count>>
  /\ UNCHANGED <<env, lookup_file, log_file, num_mappings, lookup_dict,
                 aggregates, warning_printed, error, exit_status, report>>

\* write_report, then main returns: the process exits with status 0.
\* UnicodeEncodeError is raised if a row holds a non-ASCII character.
WriteReport ==
  /\ pc = "write_report"
  /\ LET text == report_text(tag_count, traffic_count)
     IN  IF \E i \in 1..Len(text) : has_non_ascii(text[i])
           THEN /\ Raise("Cannot write non-ASCII characters")
                /\ report' = <<TagCountsTitle, TagCountsHeader>>
           ELSE /\ report' = text
                /\ pc' = "exit"
                /\ UNCHANGED <<error, f, exit_status>>
  /\ UNCHANGED <<env, lookup_file, log_file, num_mappings, lookup_dict,
                 aggregates, warning_printed, runs, copies>>

Next ==
  \/ Main_Args
  \/ Main_LogSize
  \/ Main_LookupSize
  \/ Construct
  \/ Load_Header
  \/ Load_Line
  \/ Load_EOF
  \/ Load_DecodeError
  \/ Load_Return
  \/ Lib_Call
  \/ Lib_NewParser
  \/ ProcessLogs_Open
  \/ Log_Line
  \/ Log_DecodeError
  \/ Log_EOF
  \/ WriteReport

Spec == Init /\ [][Next]_vars


(***************************************************************************)
(* The vocabulary of the properties, stated from the record and mapping    *)
(* formats rather than through the operators of the program above.         *)
(***************************************************************************)

\* s is an optional sign followed by one or more decimal digits.
IsInteger(s) ==
  LET b == IF s # <<>> /\ s[1] \in {"+", "-"} THEN Tail(s) ELSE s
  IN  b # <<>> /\ \A i \in 1..Len(b) : IsDigit(b[i])

\* The whitespace-separated fields of a log line.
Fields(line) == split(strip(line))

\* The line has the shape of a record the parser accepts.
Accepted(line) ==
  /\ Len(Fields(line)) >= 14
  /\ Fields(line)[1] = <<"2">>
  /\ IsInteger(Fields(line)[7])

Rejected(line) == ~Accepted(line)

\* The destination port and the protocol name of an accepted line.
RecordPort(line) == int(Fields(line)[7])

RecordProtocol(line) ==
  LET number == Fields(line)[8]
  IN  IF number \in DOMAIN proto_map
        THEN proto_map[number]
        ELSE <<"p", "r", "o", "t", "o", "_">> \o number

\* "<port>,<protocol>"
RecordTrafficKey(line) ==
  str(RecordPort(line)) \o <<",">> \o RecordProtocol(line)

\* The tag a table gives an accepted line.
RecordTag(table, line) ==
  LET key == <<RecordPort(line), RecordProtocol(line)>>
  IN  IF key \in DOMAIN table THEN table[key] ELSE Untagged

\* d with the count of key one higher, every other entry as it was.
Incremented(d, key) ==
  [k \in DOMAIN d \cup {key} |->
     IF k = key THEN (IF key \in DOMAIN d THEN d[key] ELSE 0) + 1 ELSE d[k]]

\* A pass of the log loop that consumed the line at index f.
LineConsumed == pc = "log_loop" /\ pc' = "log_loop" /\ f' = f + 1

RECURSIVE SumValues(_)
SumValues(d) ==
  IF DOMAIN d = {} THEN 0
  ELSE LET k == CHOOSE j \in DOMAIN d : TRUE
       IN  d[k] + SumValues([j \in DOMAIN d \ {k} |-> d[j]])

RECURSIVE TrafficOf(_)
\* The traffic counts of a sequence of accepted lines.
TrafficOf(lines) ==
  IF lines = <<>> THEN EmptyDict
  ELSE Incremented(TrafficOf(SubSeq(lines, 1, Len(lines) - 1)),
                   RecordTrafficKey(lines[Len(lines)]))

RECURSIVE TagsOf(_, _)
\* The tag counts of a sequence of accepted lines under a table.
TagsOf(table, lines) ==
  IF lines = <<>> THEN EmptyDict
  ELSE Incremented(TagsOf(table, SubSeq(lines, 1, Len(lines) - 1)),
                   RecordTag(table, lines[Len(lines)]))

\* The 14-field version 2 record of port 80, protocol 6.
TcpRecord == flow_line(<<"2">>, Port80, <<"6">>, 14)

\* The record whose destination port, 70000, is above 65535.
BigPortRecord == flow_line(<<"2">>, <<"7", "0", "0", "0", "0">>, <<"6">>, 14)

(***************************************************************************)
(* C1.  Every accepted log line (at least 14 fields, first field "2",      *)
(* field 6 an integer) raises TrafficCounts["<port>,<protocol>"] by        *)
(* exactly 1, from 0 if the key is absent, and leaves every other          *)
(* TrafficCounts entry unchanged, whatever the lookup table holds.         *)
(***************************************************************************)
C1_TrafficIncrement ==
  [][(LineConsumed /\ Accepted(log_file[f]))
       => traffic_count' = Incremented(traffic_count, RecordTrafficKey(log_file[f]))]_vars

\* The same accepted record was counted twice, under a table with entries.
C1_Witness ==
  /\ pc = "log_loop"
  /\ runs = 0
  /\ f = 3
  /\ log_file = <<TcpRecord, TcpRecord>>
  /\ lookup_dict # EmptyDict
  /\ traffic_count = (<<"8", "0", ",", "t", "c", "p">> :> 2)


(***************************************************************************)
(* C2.  Every accepted log line raises exactly one TagCounts entry, by     *)
(* exactly 1: the tag the lookup table maps (port, protocol) to when the   *)
(* key is present, "Untagged" when it is absent.  The lookup is exact on   *)
(* the port integer and matches a protocol written in any letter case in   *)
(* the lookup source: a mapping line the loader accepts is found under     *)
(* its port and every protocol name equal to its protocol up to case.      *)
(***************************************************************************)

\* The position of a letter in the alphabet, 0 for any other character.
LetterIndex(c) ==
  IF \E i \in 1..Len(UpperCase) : UpperCase[i] = c
    THEN CHOOSE i \in 1..Len(UpperCase) : UpperCase[i] = c
    ELSE IF \E i \in 1..Len(LowerCase) : LowerCase[i] = c
      THEN CHOOSE i \in 1..Len(LowerCase) : LowerCase[i] = c
      ELSE 0

SameIgnoringCase(a, b) ==
  /\ Len(a) = Len(b)
  /\ \A i \in 1..Len(a) :
       \/ a[i] = b[i]
       \/ LetterIndex(a[i]) > 0 /\ LetterIndex(a[i]) = LetterIndex(b[i])

\* The protocol names _parse_line gives the records of a log.
ProtocolNames ==
  {proto_map[n] : n \in DOMAIN proto_map} \cup {<<"p", "r", "o", "t", "o", "_", "9", "9">>}

\* The comma-separated fields of a lookup line.
CommaFields(line) == split_sep(strip(line), ",")

\* A pass of the loader's loop that accepted the mapping at index f.
MappingAccepted ==
  pc = "load_loop" /\ f' = f + 1 /\ num_mappings' = num_mappings + 1

C2_TagResolution ==
  [][/\ (LineConsumed /\ Accepted(log_file[f]))
          => tag_count' = Incremented(tag_count, RecordTag(lookup_dict, log_file[f]))
     /\ MappingAccepted
          => \A name \in ProtocolNames :
               SameIgnoringCase(CommaFields(lookup_file[f])[2], name)
                 => /\ <<int(CommaFields(lookup_file[f])[1]), name>> \in DOMAIN lookup_dict'
                    /\ lookup_dict'[<<int(CommaFields(lookup_file[f])[1]), name>>]
                         = CommaFields(lookup_file[f])[3]]_vars

\* A port 80 / protocol 6 record was counted under "mail", the tag that
\* only the line "80,TCP,mail" gives the key (80, "tcp").
C2_Witness ==
  /\ pc = "log_loop"
  /\ runs = 0
  /\ f = 2
  /\ log_file[1] = TcpRecord
  /\ <<80, Tcp>> \in DOMAIN lookup_dict
  /\ lookup_dict[<<80, Tcp>>] = Mail
  /\ tag_count = (Mail :> 1)

(***************************************************************************)
(* C3.  A log line with fewer than 14 fields, or whose first field is not  *)
(* "2", or whose field 6 is not an integer, changes neither TagCounts nor  *)
(* TrafficCounts and raises no error; the lines after it are processed,    *)
(* so the aggregates of a finished run are those of the source with the    *)
(* rejected lines removed.                                                 *)
(***************************************************************************)

\* Every line of the log from index f on is ASCII.
RestIsAscii == \A i \in f..Len(log_file) : ~has_non_ascii(log_file[i])

\* process_logs has returned from its first call on this FlowParser.
FirstRunDone == runs = 1 /\ pc \in {"lib", "write_report", "exit"}

C3_RejectedLineSkipped ==
  /\ [][(pc = "log_loop" /\ f <= Len(log_file) /\ RestIsAscii
           /\ Rejected(log_file[f]))
          => (/\ UNCHANGED aggregates
              /\ f' = f + 1
              /\ pc' = "log_loop"
              /\ error' = error)]_vars
  /\ [](FirstRunDone
          => /\ traffic_count = TrafficOf(SelectSeq(log_file, Accepted))
             /\ tag_count = TagsOf(lookup_dict, SelectSeq(log_file, Accepted)))

\* A rejected first line was followed by an accepted one, which was counted.
C3_Witness ==
  /\ FirstRunDone
  /\ error = ""
  /\ Len(log_file) = 2
  /\ Rejected(log_file[1])
  /\ log_file[2] = TcpRecord
  /\ traffic_count = (<<"8", "0", ",", "t", "c", "p">> :> 1)

(***************************************************************************)
(* C4.  During and after a load the lookup table holds at most             *)
(* MappingLimit entries; only well-formed mapping lines count toward the   *)
(* limit (blank and malformed lines do not); once MappingLimit mappings    *)
(* are accepted, the next valid mapping line and every line after it have  *)
(* no effect: the table is that of the first MappingLimit well-formed      *)
(* lines read.                                                             *)
(***************************************************************************)

\* A lookup line of exactly three comma-separated fields with an integer port.
WellFormed(line) ==
  /\ strip(line) # <<>>
  /\ Len(CommaFields(line)) = 3
  /\ IsInteger(strip(CommaFields(line)[1]))

RECURSIVE TableOf(_)
\* The table that a sequence of well-formed lines builds, later lines
\* overwriting earlier ones.
TableOf(lines) ==
  IF lines = <<>> THEN EmptyDict
  ELSE LET last == CommaFields(lines[Len(lines)])
           rest == TableOf(SubSeq(lines, 1, Len(lines) - 1))
           key == <<int(last[1]), lower(last[2])>>
       IN  [k \in DOMAIN rest \cup {key} |-> IF k = key THEN last[3] ELSE rest[k]]

\* The well-formed lines among those the loop has read, the header apart.
WellFormedRead == SelectSeq(SubSeq(lookup_file, 2, f - 1), WellFormed)

\* The well-formed lines of the open lookup file, the header apart.
WellFormedLines == SelectSeq(Tail(lookup_file), WellFormed)

Min(a, b) == IF a < b THEN a ELSE b

C4_TableBounded ==
  /\ Cardinality(DOMAIN lookup_dict) <= MappingLimit
  /\ pc \in {"load_loop", "loaded"}
       => /\ num_mappings = Min(Len(WellFormedRead), MappingLimit)
          /\ lookup_dict = TableOf(SubSeq(WellFormedRead, 1, num_mappings))

\* The load of a file with one well-formed line more than the limit has
\* finished, and the key of that line is not in the table.
C4_Witness ==
  /\ pc = "loaded"
  /\ Len(WellFormedLines) = MappingLimit + 1
  /\ Cardinality(DOMAIN lookup_dict) = MappingLimit
  /\ <<int(CommaFields(WellFormedLines[MappingLimit + 1])[1]),
       lower(CommaFields(WellFormedLines[MappingLimit + 1])[2])>>
       \notin DOMAIN lookup_dict


(***************************************************************************)
(* C5.  As claimed: the aggregates after the second run of process_logs    *)
(* over the same log source and lookup table equal the aggregates after    *)
(* the first run.                                                          *)
(***************************************************************************)
C5_AsClaimed ==
  (pc = "lib" /\ calls = 2)
    => tag_count = first_tag_count /\ traffic_count = first_traffic_count

\* d with every count doubled.
Doubled(d) == [k \in DOMAIN d |-> 2 * d[k]]

(***************************************************************************)
(* C5, amended.  A run of process_logs on a newly constructed FlowParser   *)
(* (empty aggregates) over the same log source and lookup table ends with  *)
(* the aggregates of the first run; a second call on the same FlowParser   *)
(* adds its counts to those of the first, so every count is doubled.       *)
(***************************************************************************)
C5_FreshRunsAgree ==
  /\ (pc = "lib" /\ calls >= 2 /\ runs = 1)
       => tag_count = first_tag_count /\ traffic_count = first_traffic_count
  /\ (pc = "lib" /\ calls = 2 /\ runs = 2)
       => /\ tag_count = Doubled(first_tag_count)
          /\ traffic_count = Doubled(first_traffic_count)

\* A second run on a new FlowParser has reproduced the counts of the first.
C5_Witness ==
  /\ pc = "lib"
  /\ calls = 2
  /\ runs = 1
  /\ log_file = <<TcpRecord, TcpRecord>>
  /\ traffic_count = (<<"8", "0", ",", "t", "c", "p">> :> 2)
  /\ traffic_count = first_traffic_count

(***************************************************************************)
(* C6.  As claimed: a line whose field 6 is numeric but outside the        *)
(* unsigned 16-bit range (negative, or above 65535) contributes to no      *)
(* aggregate.                                                              *)
(***************************************************************************)

\* Field 6 of an accepted line lies outside 0..65535.
PortOutOfRange(line) == RecordPort(line) < 0 \/ RecordPort(line) > 65535

C6_AsClaimed ==
  [][(LineConsumed /\ Accepted(log_file[f]) /\ PortOutOfRange(log_file[f]))
       => UNCHANGED aggregates]_vars

(***************************************************************************)
(* C6, amended.  The parser returns "not parseable" whenever field 6 is    *)
(* not a base-10 integer; it checks no range: a line of valid shape whose  *)
(* field 6 is negative or above 65535 is accepted and counted under        *)
(* "<port>,<protocol>" and under its tag, as any other port is.            *)
(***************************************************************************)
C6_OnlyNonNumericRejected ==
  [][/\ (LineConsumed /\ Len(Fields(log_file[f])) >= 14
           /\ ~IsInteger(Fields(log_file[f])[7]))
          => UNCHANGED aggregates
     /\ (LineConsumed /\ Accepted(log_file[f]) /\ PortOutOfRange(log_file[f]))
          => /\ traffic_count' =
                  Incremented(traffic_count, RecordTrafficKey(log_file[f]))
             /\ tag_count' =
                  Incremented(tag_count, RecordTag(lookup_dict, log_file[f]))]_vars

\* The record of port 70000 was counted.
C6_Witness ==
  /\ pc = "log_loop"
  /\ f = 2
  /\ log_file[1] = BigPortRecord
  /\ traffic_count = (<<"7", "0", "0", "0", "0", ",", "t", "c", "p">> :> 1)
  /\ tag_count = (Untagged :> 1)

(***************************************************************************)
(* C7.  In a run of main the size checks come before any reading: with a   *)
(* log file above LogSizeLimit or a lookup file above LookupSizeLimit the  *)
(* run never loads the lookup table, reads no log line and opens no        *)
(* report, and it ends with a failure status; files of exactly the limit   *)
(* size pass the checks.                                                   *)
(***************************************************************************)

SizeErrors ==
  {"Flow log file too large", "Lookup file too large", "Log file too large (>10MB)"}

C7_SizeChecksFirst ==
  (entry = "main" /\ argc = 4)
    => /\ (log_size > LogSizeLimit \/ lookup_size > LookupSizeLimit)
            => /\ pc \in {"main", "main_log_size", "main_lookup_size", "exit"}
               /\ lookup_file = <<>>
               /\ lookup_dict = EmptyDict
               /\ log_file = <<>>
               /\ f = 0
               /\ aggregates = <<EmptyDict, EmptyDict>>
               /\ report = <<>>
               /\ pc = "exit" => exit_status = 1 /\ error \in SizeErrors
       /\ (log_size = LogSizeLimit /\ lookup_size = LookupSizeLimit)
            => error \notin SizeErrors

\* main has stopped on the lookup size, its log file exactly at the limit.
C7_Witness ==
  /\ entry = "main"
  /\ pc = "exit"
  /\ log_size = LogSizeLimit
  /\ lookup_size = LookupSizeLimit + 1
  /\ exit_status = 1
  /\ error = "Lookup file too large"
  /\ report = <<>>

(***************************************************************************)
(* C8.  As claimed: when a decode failure occurs in the log source the     *)
(* aggregation results computed so far are discarded: TagCounts and        *)
(* TrafficCounts do not keep the counts of the lines read before it.       *)
(***************************************************************************)
C8_AsClaimed ==
  (pc = "raised" /\ error = "Log file must be ASCII text")
    => tag_count = EmptyDict /\ traffic_count = EmptyDict

(***************************************************************************)
(* C8, amended.  A decode failure in the log source makes process_logs     *)
(* fail with the encoding error; no report is written and main exits with  *)
(* a failure status.  The counts of the lines processed before the         *)
(* failure are not discarded: tag_count and traffic_count keep them.       *)
(***************************************************************************)
C8_FailureKeepsCounts ==
  /\ [][(error = "" /\ error' = "Log file must be ASCII text")
          => (/\ pc = "log_loop"
              /\ UNCHANGED aggregates
              /\ f' = 0
              /\ pc' = IF entry = "main" THEN "exit" ELSE "raised")]_vars
  /\ [](error = "Log file must be ASCII text"
          => /\ report = <<>>
             /\ pc \in {"exit", "raised"}
             /\ entry = "main" => exit_status = 1)

\* The caller holds a FlowParser whose run failed on a non-ASCII line
\* after counting a record.
C8_Witness ==
  /\ pc = "raised"
  /\ error = "Log file must be ASCII text"
  /\ Len(log_file) = 2
  /\ log_file[1] = TcpRecord
  /\ has_non_ascii(log_file[2])
  /\ traffic_count = (<<"8", "0", ",", "t", "c", "p">> :> 1)


(***************************************************************************)
(* C9.  As claimed: once the count of accepted mappings reaches            *)
(* MappingLimit the load stops at once, no remaining line of the source    *)
(* is read and the limit warning is emitted, for every source with at      *)
(* least MappingLimit valid mapping lines, one that ends exactly at the    *)
(* last of them included.                                                  *)
(***************************************************************************)

RECURSIVE IndexOfWellFormed(_, _, _)
\* The index in file of the n-th well-formed line from index i on, 0 if
\* there is none.
IndexOfWellFormed(file, i, n) ==
  IF i > Len(file) THEN 0
  ELSE IF WellFormed(file[i])
    THEN (IF n = 1 THEN i ELSE IndexOfWellFormed(file, i + 1, n - 1))
    ELSE IndexOfWellFormed(file, i + 1, n)

\* The index of the line that brings the count to MappingLimit, 0 if the
\* open lookup file has fewer well-formed lines than that.
LimitLine == IndexOfWellFormed(lookup_file, 2, MappingLimit)

\* _load_lookups has finished on a file that reaches the limit.
LoadedAtLimit == pc = "loaded" /\ LimitLine > 0

Consumed == SubSeq(log_file, 1, f - 1)

C10_SumsAgree ==
  /\ []((pc = "log_loop" /\ runs = 0)
          => /\ SumValues(tag_count) = Len(SelectSeq(Consumed, Accepted))
             /\ SumValues(traffic_count) = Len(SelectSeq(Consumed, Accepted))
             /\ \A k \in DOMAIN tag_count : tag_count[k] >= 1
             /\ \A k \in DOMAIN traffic_count : traffic_count[k] >= 1)
  /\ [][(pc \in {"lib", "process_logs", "log_loop", "write_report"})
          => (lookup_dict' = lookup_dict)]_vars

\* Two accepted lines of different keys and tags have been consumed.
C10_Witness ==
  /\ pc = "log_loop"
  /\ runs = 0
  /\ f = 3
  /\ Accepted(log_file[1])
  /\ Accepted(log_file[2])
  /\ Cardinality(DOMAIN traffic_count) = 2
  /\ Cardinality(DOMAIN tag_count) = 2
  /\ SumValues(tag_count) = 2

====
